---- MODULE Spec2Model ----
(***************************************************************************)
(* Vehicle dashboard simulation (src/vehicle_dashboard.py, src/basic.py).  *)
(* The model follows vehicle_dashboard.py; basic.py is the same program    *)
(* without log_data.                                                       *)
(*                                                                         *)
(* Numbers.  Speed and RPM are Python ints and are modelled as integers.   *)
(* Battery_Level_Pct is a float; it is modelled exactly, as an integer     *)
(* number of units of 1/DrainDivisor percent, so that                      *)
(*     drain_factor = 0.01 + RPM/1500000  =  BaseDrain + RPM   units,      *)
(*     100.0 %                            =  FullBattery       units,      *)
(*     round(x, 2)  rounds to the nearest multiple of  Cent    units.      *)
(* The float computation differs from the exact one by about 1e-13 %,      *)
(* far less than one unit (6.7e-7 %), so it rounds like the exact value    *)
(* except when the exact value is half-way between two multiples of Cent:  *)
(* there the float may lie on either side, and round() may go either way.  *)
(* That choice is the parameter tie_up.                                    *)
(***************************************************************************)
EXTENDS Integers, Sequences, FiniteSets, TLC

VARIABLES
    pc,              \* position in run_monitoring_cycle, or in a direct call
    target_cycles,   \* run_monitoring_cycle's parameter
    cycle,           \* the for loop's variable (0 before the loop)
    config,          \* the content of config.ini
    vehicle_data,    \* the dict Speed_Km_hr / RPM / Battery_Level_Pct
    thresholds,      \* the dict returned by load_thresholds, or NotLoaded
    alerts,          \* the list returned by the latest check_alerts call
    display,         \* what the latest display_dashboard call rendered
    logged,          \* the records appended by the latest log_data call
    done,            \* how many times each step of the loop has been performed
    loads,           \* how many times load_thresholds has been called
    battery_before,  \* Battery_Level_Pct on entry to the latest get_real_time_data
    clamped          \* which max()/min() of the latest get_real_time_data changed its argument

vars == <<pc, target_cycles, cycle, config, vehicle_data, thresholds, alerts,
          display, logged, done, loads, battery_before, clamped>>

----------------------------------------------------------------------------
(* Bounds of the model *)

MaxCycles == 3

NoiseStep == 200

LongCycles == 9001

SpeedCap == 210

(* Program constants *)

DrainDivisor == 1500000

FullBatteryPct == 100

MinRpm == 800

MaxRpm == 6500

RpmPerKmh == 30

MaxSpeedChange == 15

MaxRpmNoise == 400

OverrideSpeed == 120

DefaultSpeedThreshold == 110

DefaultRpmThreshold == 6000

DefaultBatteryThreshold == 10

RpmBarUnit == 1000

BatteryBarUnitPct == 10

BatteryIconPct == 20

\* 0.01 %, in units: the constant term of drain_factor and the grain of round(x, 2)
Cent == DrainDivisor \div 100

BaseDrain == Cent

FullBattery == FullBatteryPct * DrainDivisor

Pct(p) == p * DrainDivisor

Max(a, b) == IF a >= b THEN a ELSE b

Min(a, b) == IF a <= b THEN a ELSE b

\* random.randint(-15, 15)
SpeedChanges == (0 - MaxSpeedChange)..MaxSpeedChange

\* random.randint(-400, 400), sampled every NoiseStep, both ends included
RpmNoises ==
    {n \in (0 - MaxRpmNoise)..MaxRpmNoise :
        n % NoiseStep = 0 \/ n = MaxRpmNoise \/ n = 0 - MaxRpmNoise}

----------------------------------------------------------------------------
(* initialize_dashboard *)

initialize_dashboard ==
    [Speed_Km_hr |-> 0, RPM |-> 0, Battery_Level_Pct |-> FullBattery]

----------------------------------------------------------------------------
(* load_thresholds *)

\* the local variable thresholds before load_thresholds has returned
NotLoaded == [unbound |-> TRUE]

\* The text of an option of config.ini: absent, a text float() rejects, or a number.
Missing == [text |-> "missing", value |-> 0]

NonNumeric == [text |-> "abc", value |-> 0]

Number(n) == [text |-> "number", value |-> n]

DefaultThresholds ==
    [Speed_Km_hr |-> DefaultSpeedThreshold,
     RPM |-> DefaultRpmThreshold,
     Battery_Level_Pct |-> DefaultBatteryThreshold]

\* A config.ini: whether the file exists, whether configparser can read it
\* (a line before any section header, or a repeated option, makes read() raise),
\* whether it has a [THRESHOLDS] section, and the text of each of the three options.
ConfigFile(e, r, s, f1, f2, f3) ==
    [exists |-> e, readable |-> r, section |-> s,
     SPEED_KM_HR |-> f1, RPM |-> f2, BATTERY_LEVEL_PCT |-> f3]

AbsentConfig == ConfigFile(FALSE, TRUE, FALSE, Missing, Missing, Missing)

\* config.getfloat(section, option): "NoSectionError" and "NoOptionError" are
\* configparser.Error; float() of a text that is no number raises "ValueError".
getfloat(c, option) ==
    IF ~c.section THEN [error |-> "NoSectionError", value |-> 0]
    ELSE IF c[option].text = "missing" THEN [error |-> "NoOptionError", value |-> 0]
    ELSE IF c[option].text # "number" THEN [error |-> "ValueError", value |-> 0]
    ELSE [error |-> "none", value |-> c[option].value]

ConfigparserErrors == {"NoSectionError", "NoOptionError",
                       "MissingSectionHeaderError", "DuplicateOptionError"}

Returned(t) == [raised |-> "none", value |-> t]

Raised(e) == [raised |-> e, value |-> NotLoaded]

\* The try block of load_thresholds: the three getfloat calls in order, the first
\* error ending it; "except configparser.Error" catches only configparser's own.
load_thresholds_try(c) ==
    LET s == getfloat(c, "SPEED_KM_HR")
        r == getfloat(c, "RPM")
        b == getfloat(c, "BATTERY_LEVEL_PCT")
        first == IF s.error # "none" THEN s.error
                 ELSE IF r.error # "none" THEN r.error
                 ELSE b.error
    IN  IF first = "none"
        THEN Returned([Speed_Km_hr |-> s.value, RPM |-> r.value,
                       Battery_Level_Pct |-> b.value])
        ELSE IF first \in ConfigparserErrors
        THEN Returned(DefaultThresholds)
        ELSE Raised(first)

load_thresholds(c) ==
    IF ~c.exists THEN Returned(DefaultThresholds)
    ELSE IF ~c.readable THEN Raised("MissingSectionHeaderError")  \* config.read, outside the try
    ELSE load_thresholds_try(c)

----------------------------------------------------------------------------
(* get_real_time_data *)

\* round(x, 2) of a battery level x >= 0 given in units
round2(x, tie_up) ==
    LET q == x \div Cent
        r == x % Cent
    IN  IF 2 * r < Cent THEN q * Cent
        ELSE IF 2 * r > Cent THEN (q + 1) * Cent
        ELSE IF tie_up THEN (q + 1) * Cent ELSE q * Cent

\* new_speed without max(0, .)
new_speed_unclamped(current_data, speed_change) ==
    current_data.Speed_Km_hr + speed_change

new_speed(current_data, speed_change) ==
    Max(0, current_data.Speed_Km_hr + speed_change)

\* new_rpm without min(6500, .)
new_rpm_no_upper_clamp(speed, rpm_noise) ==
    Max(MinRpm, speed * RpmPerKmh + rpm_noise)

new_rpm(speed, rpm_noise) ==
    Max(MinRpm, Min(MaxRpm, speed * RpmPerKmh + rpm_noise))

\* drain_factor with RPM / 150000
drain_factor_wrong_divisor(rpm) == BaseDrain + 10 * rpm

drain_factor(rpm) == BaseDrain + rpm

\* new_battery adding the drain
new_battery_sign(current_data, rpm) ==
    Max(0, current_data.Battery_Level_Pct + (BaseDrain + rpm))

new_battery(current_data, rpm) ==
    Max(0, current_data.Battery_Level_Pct - drain_factor(rpm))

\* the ways round() can go on the battery level the draws lead to
RoundingChoices(current_data, speed_change, rpm_noise) ==
    LET x == new_battery(current_data,
                         new_rpm(new_speed(current_data, speed_change), rpm_noise))
    IN  IF 2 * (x % Cent) = Cent THEN BOOLEAN ELSE {FALSE}

\* which of the three clamps act on the values the draws lead to
NotClamped == [speed |-> FALSE, rpm |-> "no", battery |-> FALSE]

clamps(current_data, speed_change, rpm_noise) ==
    LET speed == new_speed(current_data, speed_change)
        raw_rpm == speed * RpmPerKmh + rpm_noise
        rpm == new_rpm(speed, rpm_noise)
    IN  [speed |-> current_data.Speed_Km_hr + speed_change < 0,
         rpm |-> IF raw_rpm < MinRpm THEN "low"
                 ELSE IF raw_rpm > MaxRpm THEN "high" ELSE "no",
         battery |-> current_data.Battery_Level_Pct - drain_factor(rpm) < 0]

get_real_time_data(current_data, speed_change, rpm_noise, tie_up) ==
    LET speed == new_speed(current_data, speed_change)
        rpm == new_rpm(speed, rpm_noise)
    IN  [Speed_Km_hr |-> speed,
         RPM |-> rpm,
         Battery_Level_Pct |-> round2(new_battery(current_data, rpm), tie_up)]

----------------------------------------------------------------------------
(* display_dashboard *)

NoDisplay == [blank |-> TRUE]

display_dashboard(data) ==
    LET battery_level == data.Battery_Level_Pct \div Pct(BatteryBarUnitPct)
    IN  [Speed |-> data.Speed_Km_hr,
         RPM |-> data.RPM,
         rpm_bar |-> data.RPM \div RpmBarUnit,
         Battery |-> data.Battery_Level_Pct,
         battery_icon |-> IF data.Battery_Level_Pct > Pct(BatteryIconPct)
                          THEN "full" ELSE "low",
         battery_bar |-> <<battery_level, 10 - battery_level>>]

----------------------------------------------------------------------------
(* check_alerts *)

Alert(kind, value, threshold) ==
    [kind |-> kind, value |-> value, threshold |-> threshold]

\* check_alerts comparing RPM with >=
check_alerts_nonstrict(data, thr) ==
    LET speed == IF data.Speed_Km_hr > thr.Speed_Km_hr
                 THEN <<Alert("HighSpeed", data.Speed_Km_hr, thr.Speed_Km_hr)>>
                 ELSE <<>>
        rpm == IF data.RPM >= thr.RPM
               THEN <<Alert("HighRpm", data.RPM, thr.RPM)>>
               ELSE <<>>
        battery == IF data.Battery_Level_Pct < Pct(thr.Battery_Level_Pct)
                   THEN <<Alert("LowBattery", data.Battery_Level_Pct,
                                thr.Battery_Level_Pct)>>
                   ELSE <<>>
    IN  speed \o rpm \o battery

check_alerts(data, thr) ==
    LET speed == IF data.Speed_Km_hr > thr.Speed_Km_hr
                 THEN <<Alert("HighSpeed", data.Speed_Km_hr, thr.Speed_Km_hr)>>
                 ELSE <<>>
        rpm == IF data.RPM > thr.RPM
               THEN <<Alert("HighRpm", data.RPM, thr.RPM)>>
               ELSE <<>>
        battery == IF data.Battery_Level_Pct < Pct(thr.Battery_Level_Pct)
                   THEN <<Alert("LowBattery", data.Battery_Level_Pct,
                                thr.Battery_Level_Pct)>>
                   ELSE <<>>
    IN  speed \o rpm \o battery

----------------------------------------------------------------------------
(* log_data *)

log_data(data, as) ==
    <<[level |-> "INFO", data |-> data]>>
    \o [i \in 1..Len(as) |-> [level |-> "WARNING", alert |-> as[i]]]

----------------------------------------------------------------------------
(* Inputs *)

SpeedThresholdInputs == {DefaultSpeedThreshold, OverrideSpeed}

RpmThresholdInputs == {DefaultRpmThreshold, OverrideSpeed * RpmPerKmh}

BatteryThresholdInputs == {DefaultBatteryThreshold, FullBatteryPct}

OptionTexts(numbers) == {Missing, NonNumeric} \cup {Number(n) : n \in numbers}

\* every config.ini over the option texts above
AllConfigs ==
    {AbsentConfig}
    \cup {ConfigFile(TRUE, r, s, f1, f2, f3) :
            r \in BOOLEAN, s \in BOOLEAN,
            f1 \in OptionTexts(SpeedThresholdInputs),
            f2 \in OptionTexts(RpmThresholdInputs),
            f3 \in OptionTexts(BatteryThresholdInputs)}

\* the config.ini files a run of the loop is started with: none; one with no
\* section header; one lacking an option; one with a text that is no number; one
\* with three numbers
RunConfigs ==
    {AbsentConfig,
     ConfigFile(TRUE, FALSE, FALSE, Missing, Missing, Missing),
     ConfigFile(TRUE, TRUE, TRUE, Number(DefaultSpeedThreshold),
                Number(DefaultRpmThreshold), Missing),
     ConfigFile(TRUE, TRUE, TRUE, Number(DefaultSpeedThreshold), NonNumeric,
                Number(DefaultBatteryThreshold)),
     ConfigFile(TRUE, TRUE, TRUE, Number(OverrideSpeed),
                Number(OverrideSpeed * RpmPerKmh), Number(FullBatteryPct))}

\* thresholds handed to check_alerts in a direct call
ThresholdInputs ==
    {DefaultThresholds,
     [Speed_Km_hr |-> OverrideSpeed, RPM |-> MaxRpm,
      Battery_Level_Pct |-> FullBatteryPct]}

\* states handed to get_real_time_data in a direct call: speeds below zero, around
\* the speeds where the RPM clamps start to act, and large; a previous RPM inside
\* and outside [MinRpm, MaxRpm]; battery levels that are multiples of 0.01 % (full,
\* around the default threshold, near empty) and levels that are not
SpeedInputs == {-40, -15, -1, 0, 14, 26, 27, 40, 95, 110, 120, 203, 216, 230, 300}

RpmInputs == {0, 3000, 9000}

ElapsedInputs == {0, 1, 2, 8999, 9000, 9001, 9998, 9999, 10000}

BatteryInputs ==
    {FullBattery - k * Cent : k \in ElapsedInputs}
    \cup {1, Cent \div 2, Cent + MinRpm + Cent + Cent \div 2,
          Cent + MaxRpm + Cent \div 2, FullBattery - 1}

DataInputs ==
    [Speed_Km_hr : SpeedInputs, RPM : RpmInputs, Battery_Level_Pct : BatteryInputs]

----------------------------------------------------------------------------
(* run_monitoring_cycle *)

NoSteps == [simulate |-> 0, present |-> 0, evaluate |-> 0, log |-> 0, pause |-> 0]

Init ==
    /\ pc = "Idle"
    /\ target_cycles \in 0..MaxCycles
    /\ cycle = 0
    /\ config \in RunConfigs
    /\ vehicle_data = initialize_dashboard
    /\ thresholds = NotLoaded
    /\ alerts = <<>>
    /\ display = NoDisplay
    /\ logged = <<>>
    /\ done = NoSteps
    /\ loads = 0
    /\ battery_before = FullBattery
    /\ clamped = NotClamped

\* Lines 109-116: initialize_dashboard, load_thresholds, the speed override, and
\* the first test of the for loop.  An exception of load_thresholds leaves
\* run_monitoring_cycle, which has no handler.
StartRun ==
    /\ pc = "Idle"
    /\ LET loaded == load_thresholds(config)
       IN  /\ loads' = loads + 1
           /\ IF loaded.raised # "none"
              THEN /\ pc' = "Raised"
                   /\ vehicle_data' = initialize_dashboard
                   /\ UNCHANGED <<thresholds, cycle>>
              ELSE /\ thresholds' = loaded.value
                   /\ vehicle_data' =
                        [initialize_dashboard EXCEPT !.Speed_Km_hr = OverrideSpeed]
                   /\ IF target_cycles >= 1
                      THEN pc' = "simulate" /\ cycle' = 1
                      ELSE pc' = "Complete" /\ cycle' = cycle
    /\ UNCHANGED <<target_cycles, config, alerts, display, logged, done,
                   battery_before, clamped>>

\* vehicle_data = get_real_time_data(vehicle_data), the two random.randint calls
\* returning a member of speed_changes and a member of rpm_noises
SimulateDrawing(speed_changes, rpm_noises) ==
    /\ pc = "simulate"
    /\ \E speed_change \in speed_changes, rpm_noise \in rpm_noises :
          \E tie_up \in RoundingChoices(vehicle_data, speed_change, rpm_noise) :
              /\ vehicle_data' =
                   get_real_time_data(vehicle_data, speed_change, rpm_noise, tie_up)
              /\ clamped' = clamps(vehicle_data, speed_change, rpm_noise)
    /\ battery_before' = vehicle_data.Battery_Level_Pct
    /\ done' = [done EXCEPT !.simulate = @ + 1]
    /\ pc' = "present"
    /\ UNCHANGED <<target_cycles, cycle, config, thresholds, alerts, display,
                   logged, loads>>

Simulate == SimulateDrawing(SpeedChanges, RpmNoises)

\* display_dashboard(vehicle_data)
Present ==
    /\ pc = "present"
    /\ display' = display_dashboard(vehicle_data)
    /\ done' = [done EXCEPT !.present = @ + 1]
    /\ pc' = "evaluate"
    /\ UNCHANGED <<target_cycles, cycle, config, vehicle_data, thresholds, alerts,
                   logged, loads, battery_before, clamped>>

\* Evaluate loading the thresholds again before it compares
Evaluate_reloading ==
    /\ pc = "evaluate"
    /\ thresholds' = load_thresholds(config).value
    /\ loads' = loads + 1
    /\ alerts' = check_alerts(vehicle_data, thresholds')
    /\ done' = [done EXCEPT !.evaluate = @ + 1]
    /\ pc' = "log"
    /\ UNCHANGED <<target_cycles, cycle, config, vehicle_data, display,
                   logged, battery_before, clamped>>

\* alerts = check_alerts(vehicle_data, thresholds)
Evaluate ==
    /\ pc = "evaluate"
    /\ alerts' = check_alerts(vehicle_data, thresholds)
    /\ done' = [done EXCEPT !.evaluate = @ + 1]
    /\ pc' = "log"
    /\ UNCHANGED <<target_cycles, cycle, config, vehicle_data, thresholds, display,
                   logged, loads, battery_before, clamped>>

\* log_data(vehicle_data, alerts)
Log ==
    /\ pc = "log"
    /\ logged' = log_data(vehicle_data, alerts)
    /\ done' = [done EXCEPT !.log = @ + 1]
    /\ pc' = "pause"
    /\ UNCHANGED <<target_cycles, cycle, config, vehicle_data, thresholds, alerts,
                   display, loads, battery_before, clamped>>

\* time.sleep(0.5), then the for loop's next test: another cycle, or the end
Pause ==
    /\ pc = "pause"
    /\ done' = [done EXCEPT !.pause = @ + 1]
    /\ IF cycle < target_cycles
       THEN pc' = "simulate" /\ cycle' = cycle + 1
       ELSE pc' = "Complete" /\ cycle' = cycle
    /\ UNCHANGED <<target_cycles, config, vehicle_data, thresholds, alerts,
                   display, logged, loads, battery_before, clamped>>

Next == StartRun \/ Simulate \/ Present \/ Evaluate \/ Log \/ Pause

Spec == Init /\ [][Next]_vars

----------------------------------------------------------------------------
(* Direct calls of load_thresholds, get_real_time_data and check_alerts *)

CallInit ==
    /\ target_cycles = 0
    /\ cycle = 0
    /\ alerts = <<>>
    /\ display = NoDisplay
    /\ logged = <<>>
    /\ done = NoSteps
    /\ loads = 0
    /\ \/ /\ pc = "call_load_thresholds"
          /\ config \in AllConfigs
          /\ vehicle_data = initialize_dashboard
          /\ thresholds = NotLoaded
       \/ /\ pc = "call_get_real_time_data"
          /\ config = AbsentConfig
          /\ vehicle_data \in DataInputs
          /\ thresholds \in ThresholdInputs
    /\ battery_before = vehicle_data.Battery_Level_Pct
    /\ clamped = NotClamped

CallLoadThresholds ==
    /\ pc = "call_load_thresholds"
    /\ LET loaded == load_thresholds(config)
       IN  /\ thresholds' = loaded.value
           /\ pc' = IF loaded.raised = "none" THEN "loaded" ELSE "load_raised"
    /\ loads' = loads + 1
    /\ UNCHANGED <<target_cycles, cycle, config, vehicle_data, alerts, display,
                   logged, done, battery_before, clamped>>

CallGetRealTimeData ==
    /\ pc = "call_get_real_time_data"
    /\ \E speed_change \in SpeedChanges, rpm_noise \in RpmNoises :
          \E tie_up \in RoundingChoices(vehicle_data, speed_change, rpm_noise) :
              /\ vehicle_data' =
                   get_real_time_data(vehicle_data, speed_change, rpm_noise, tie_up)
              /\ clamped' = clamps(vehicle_data, speed_change, rpm_noise)
    /\ battery_before' = vehicle_data.Battery_Level_Pct
    /\ pc' = "call_check_alerts"
    /\ UNCHANGED <<target_cycles, cycle, config, thresholds, alerts, display,
                   logged, done, loads>>

CallCheckAlerts ==
    /\ pc = "call_check_alerts"
    /\ alerts' = check_alerts(vehicle_data, thresholds)
    /\ pc' = "checked"
    /\ UNCHANGED <<target_cycles, cycle, config, vehicle_data, thresholds, display,
                   logged, done, loads, battery_before, clamped>>

CallNext == CallLoadThresholds \/ CallGetRealTimeData \/ CallCheckAlerts

\* The functions called directly on arbitrary inputs, and the loop's own runs
CallSpec == (Init \/ CallInit) /\ [][Next \/ CallNext]_vars

----------------------------------------------------------------------------
(* Long runs: one run of LongCycles cycles with the default thresholds, the    *)
(* draws taken from the ends of their ranges and the speed kept at or below   *)
(* SpeedCap, so that the speeds of a run stay in a finite set that holds 0    *)
(* (RPM 800) and speeds where the RPM is 6500.                                *)

LongInit ==
    /\ pc = "Idle"
    /\ target_cycles = LongCycles
    /\ cycle = 0
    /\ config = AbsentConfig
    /\ vehicle_data = initialize_dashboard
    /\ thresholds = NotLoaded
    /\ alerts = <<>>
    /\ display = NoDisplay
    /\ logged = <<>>
    /\ done = NoSteps
    /\ loads = 0
    /\ battery_before = FullBattery
    /\ clamped = NotClamped

LongSimulate ==
    /\ SimulateDrawing({0 - MaxSpeedChange, MaxSpeedChange},
                       {0 - MaxRpmNoise, MaxRpmNoise})
    /\ vehicle_data'.Speed_Km_hr <= SpeedCap

LongNext == StartRun \/ LongSimulate \/ Present \/ Evaluate \/ Log \/ Pause

LongSpec == (LongInit \/ CallInit) /\ [][LongNext \/ CallNext]_vars

----------------------------------------------------------------------------
(* Properties *)

LoopPositions == {"simulate", "present", "evaluate", "log", "pause"}

\* get_real_time_data has returned at least once
Stepped == done.simulate >= 1 \/ pc \in {"call_check_alerts", "checked"}

\* alerts is the list check_alerts returned for the current vehicle_data
Evaluated == pc \in {"log", "pause", "checked"}

Kinds(as) == [i \in 1..Len(as) |-> as[i].kind]

Has(as, kind) == \E i \in 1..Len(as) : as[i].kind = kind

\* a config.ini that is absent, cannot be parsed, has no [THRESHOLDS] section,
\* lacks one of the three options or holds a text that is no number for one
Defective(c) ==
    \/ ~c.exists
    \/ ~c.readable
    \/ ~c.section
    \/ \E o \in {"SPEED_KM_HR", "RPM", "BATTERY_LEVEL_PCT"} : c[o].text # "number"

\* C1: load_thresholds never raises; for every config.ini that is absent,
\* malformed, without the section, lacking an option or holding a text that is no
\* number, it returns the default thresholds.
C1_DefectiveConfigYieldsDefaults ==
    (loads >= 1 /\ Defective(config)) =>
        /\ pc \notin {"Raised", "load_raised"}
        /\ thresholds = DefaultThresholds

\* What load_thresholds does do: whenever it returns it returns numbers, and the
\* default ones for an absent file, a file without the section, and a file whose
\* first unusable option is a missing one.
LoadReturnsDefaultsWhenCaught ==
    (loads >= 1 /\ Defective(config) /\ pc \notin {"Raised", "load_raised"}) =>
        thresholds = DefaultThresholds

\* C2: with the default thresholds, the alerts evaluated in cycle 1 contain the
\* high-speed alert, whatever speed change the first simulation step draws.
C2_HighSpeedAlertOnCycle1 ==
    (pc \in {"log", "pause"} /\ cycle = 1 /\ thresholds = DefaultThresholds) =>
        Has(alerts, "HighSpeed")

\* C3: after get_real_time_data, whatever state it was given and whatever it
\* drew, RPM is in [800, 6500]; so is it in every state the loop presents or
\* evaluates.
C3_RpmWithinBounds ==
    Stepped => (MinRpm <= vehicle_data.RPM /\ vehicle_data.RPM <= MaxRpm)

C3_Witness ==
    /\ pc = "call_check_alerts"
    /\ clamped.rpm = "high"
    /\ vehicle_data.RPM = MaxRpm

\* C4: after get_real_time_data, rounding included, the battery level is at most
\* what it was before the step and at least 0; along a run it stays in [0, 100].
C4_BatteryNonIncreasing ==
    Stepped =>
        /\ vehicle_data.Battery_Level_Pct <= battery_before
        /\ vehicle_data.Battery_Level_Pct >= 0
        /\ vehicle_data.Battery_Level_Pct <= FullBattery

\* a step whose exact result lies half-way between two multiples of 0.01 and was
\* rounded up
C4_Witness ==
    /\ pc = "call_check_alerts"
    /\ battery_before % Cent # 0
    /\ vehicle_data.Battery_Level_Pct > battery_before - drain_factor(vehicle_data.RPM)
    /\ 2 * ((battery_before - drain_factor(vehicle_data.RPM)) % Cent) = Cent
    /\ vehicle_data.Battery_Level_Pct > 0

\* C5: check_alerts returns the high-speed alert iff speed > its threshold, the
\* high-RPM alert iff RPM > its threshold, the low-battery alert iff battery < its
\* threshold (a value equal to its threshold raises nothing), each at most once,
\* in the order speed, rpm, battery.
C5_AlertsIffStrictlyBeyond ==
    Evaluated =>
        /\ Has(alerts, "HighSpeed")
             <=> vehicle_data.Speed_Km_hr > thresholds.Speed_Km_hr
        /\ Has(alerts, "HighRpm") <=> vehicle_data.RPM > thresholds.RPM
        /\ Has(alerts, "LowBattery")
             <=> vehicle_data.Battery_Level_Pct < Pct(thresholds.Battery_Level_Pct)
        /\ Kinds(alerts) \in {<<>>, <<"HighSpeed">>, <<"HighRpm">>, <<"LowBattery">>,
                              <<"HighSpeed", "HighRpm">>,
                              <<"HighSpeed", "LowBattery">>,
                              <<"HighRpm", "LowBattery">>,
                              <<"HighSpeed", "HighRpm", "LowBattery">>}

\* RPM equal to its threshold raises nothing while the other two alerts are
\* raised, speed first
C5_Witness ==
    /\ pc = "checked"
    /\ vehicle_data.RPM = thresholds.RPM
    /\ Kinds(alerts) = <<"HighSpeed", "LowBattery">>

\* the steps performed so far when the loop is at position p of cycle c
StepsAt(p, c) ==
    [simulate |-> IF p = "simulate" THEN c - 1 ELSE c,
     present |-> IF p \in {"simulate", "present"} THEN c - 1 ELSE c,
     evaluate |-> IF p \in {"simulate", "present", "evaluate"} THEN c - 1 ELSE c,
     log |-> IF p = "pause" THEN c ELSE c - 1,
     pause |-> c - 1]

\* the part of C6 that concerns a run whose thresholds were loaded
IterationsInOrder ==
    /\ pc \in LoopPositions =>
          /\ cycle \in 1..target_cycles
          /\ done = StepsAt(pc, cycle)
    /\ (pc = "simulate" /\ cycle = 1) =>
          vehicle_data = [Speed_Km_hr |-> OverrideSpeed, RPM |-> 0,
                          Battery_Level_Pct |-> FullBattery]
    /\ pc = "Complete" =>
          /\ done = [k \in DOMAIN done |-> target_cycles]
          /\ ~ENABLED Next

\* C6: for every cycle_count >= 0 the run performs exactly cycle_count iterations,
\* each in the order simulate, present, evaluate, notify, pause, cycle 1 entered
\* with speed 120, rpm 0 and battery 100.0, and then reaches Complete, after which
\* no step occurs: the run is in Idle, in the loop or in Complete, and goes on
\* until it is in Complete.
C6_ExactlyCycleCountIterations ==
    /\ pc \in {"Idle", "Complete"} \cup LoopPositions
    /\ pc # "Complete" => ENABLED Next
    /\ IterationsInOrder

\* C6, for the runs in which load_thresholds returns
C6_UnlessLoadRaises == pc # "Raised" => C6_ExactlyCycleCountIterations

\* C7: thresholds are loaded exactly once, before the first cycle, and no step of
\* any cycle changes them.
C7_ThresholdsLoadedOnceAndKept ==
    /\ [](pc \in LoopPositions \cup {"Complete"} =>
              (loads = 1 /\ thresholds = load_thresholds(config).value
                         /\ thresholds # NotLoaded))
    /\ [][pc # "Idle" => (thresholds' = thresholds /\ loads' = loads)]_vars

C7_Witness ==
    /\ pc = "Complete"
    /\ done.log >= 2
    /\ thresholds # DefaultThresholds

\* C8: after get_real_time_data, whatever state it was given (a negative speed
\* included) and whatever it drew, speed is >= 0.
C8_SpeedNonNegative == Stepped => vehicle_data.Speed_Km_hr >= 0

C8_Witness ==
    /\ pc = "call_check_alerts"
    /\ clamped.speed
    /\ vehicle_data.Speed_Km_hr = 0

\* the number of 0.01 % decrements that lead from 100.0 to the battery level b
Elapsed(b) == (FullBattery - b) \div Cent

FirstCyclesWithoutLowBattery == (FullBatteryPct - DefaultBatteryThreshold) * 100

\* C10: from a battery level that is a multiple of 0.01 one simulation step lowers
\* it by exactly 0.01 (to 0 from 0), whatever the RPM; in the loop the level after
\* k cycles is max(0, 100.00 - 0.01 k); and with the default battery threshold no
\* low-battery alert is raised in the first 9000 cycles.
C10_BatteryDropsOneCentPerStep ==
    /\ (Stepped /\ battery_before % Cent = 0) =>
          vehicle_data.Battery_Level_Pct = Max(0, battery_before - Cent)
    /\ pc \in LoopPositions \cup {"Complete"} =>
          vehicle_data.Battery_Level_Pct = Max(0, FullBattery - done.simulate * Cent)
    /\ (pc \in {"log", "pause"}
           /\ thresholds.Battery_Level_Pct = DefaultBatteryThreshold
           /\ cycle <= FirstCyclesWithoutLowBattery) =>
          ~Has(alerts, "LowBattery")
    /\ (Evaluated /\ vehicle_data.Battery_Level_Pct % Cent = 0
           /\ thresholds.Battery_Level_Pct = DefaultBatteryThreshold
           /\ Has(alerts, "LowBattery")) =>
          Elapsed(vehicle_data.Battery_Level_Pct) > FirstCyclesWithoutLowBattery

\* cycle 9001 of a run, at the highest RPM: 10.00 -> 9.99 and the first
\* low-battery alert
C10_Witness ==
    /\ pc = "log"
    /\ cycle = FirstCyclesWithoutLowBattery + 1
    /\ battery_before = Pct(DefaultBatteryThreshold)
    /\ vehicle_data.RPM = MaxRpm
    /\ vehicle_data.Battery_Level_Pct = battery_before - Cent
    /\ thresholds = DefaultThresholds
    /\ Has(alerts, "LowBattery")

====
